---- MODULE Spec2Model ----
(***************************************************************************)
(* A model of the code-block language completer (src/main.ts): the plugin  *)
(* settings, the candidate list of LanguageSuggester, the trigger          *)
(* detection on the editor line, the suggestion ranking, the commit of a   *)
(* suggestion and the three handlers of the settings tab.                  *)
(*                                                                         *)
(* A JavaScript string is a sequence of one-character strings, so that     *)
(* split, trim, toLowerCase, startsWith and the regular expression act on  *)
(* characters as they do in the code.                                      *)
(***************************************************************************)
EXTENDS Integers, Sequences, FiniteSets, TLC

\* ------------------------------------------------------------------ bounds

\* Longest word typed after the fence, and longest text typed into the
\* "Last Used Language" field.
MaxTextLen == 1

\* Most "Additional Languages" handlers waiting for their save at once.
MaxPending == 1

\* Longest editor line of the trigger scan.
MaxLineLen == 4

\* The last line of the document; the cursor is on the first or the last.
MaxLineNo == 1

\* --------------------------------------------------------------- characters

\* The character U+0060, named: a TLA+ string literal cannot hold it.
Backtick == "BACKTICK"

UpperCase ==
    <<"A", "B", "C", "D", "E", "F", "G", "H", "I", "J", "K", "L", "M",
      "N", "O", "P", "Q", "R", "S", "T", "U", "V", "W", "X", "Y", "Z">>

LowerCase ==
    <<"a", "b", "c", "d", "e", "f", "g", "h", "i", "j", "k", "l", "m",
      "n", "o", "p", "q", "r", "s", "t", "u", "v", "w", "x", "y", "z">>

Digits == {"0", "1", "2", "3", "4", "5", "6", "7", "8", "9"}

Range(s) == {s[i] : i \in DOMAIN s}

\* \w of a JavaScript regular expression: ASCII letters, digits, underscore.
IsWordChar(c) == c \in Range(UpperCase) \cup Range(LowerCase) \cup Digits \cup {"_"}

\* The white space String.prototype.trim strips (the part of it typed here).
IsSpace(c) == c \in {" ", "\t", "\n", "\r"}

ToLowerChar(c) ==
    IF \E i \in DOMAIN UpperCase : UpperCase[i] = c
    THEN LowerCase[CHOOSE i \in DOMAIN UpperCase : UpperCase[i] = c]
    ELSE c

\* ------------------------------------------------------------------ strings

toLowerCase(s) == [i \in 1..Len(s) |-> ToLowerChar(s[i])]

startsWith(s, p) == Len(p) <= Len(s) /\ SubSeq(s, 1, Len(p)) = p

\* s.split(sep) for a one-character separator: always at least one segment.
RECURSIVE split(_, _)
split(s, sep) ==
    IF \A i \in 1..Len(s) : s[i] # sep
    THEN <<s>>
    ELSE LET i == CHOOSE k \in 1..Len(s) :
                      s[k] = sep /\ \A j \in 1..(k - 1) : s[j] # sep
         IN  <<SubSeq(s, 1, i - 1)>> \o split(SubSeq(s, i + 1, Len(s)), sep)

trim(s) ==
    LET keep == {i \in 1..Len(s) : ~IsSpace(s[i])}
    IN  IF keep = {} THEN <<>>
        ELSE LET lo == CHOOSE i \in keep : \A j \in keep : i <= j
                 hi == CHOOSE i \in keep : \A j \in keep : j <= i
             IN  SubSeq(s, lo, hi)

\* Array.prototype.includes
includes(arr, x) == \E i \in 1..Len(arr) : arr[i] = x

\* Array.from(new Set(arr)): insertion order, the first occurrence kept.
RECURSIVE ArrayFromSet(_)
ArrayFromSet(arr) ==
    IF arr = <<>> THEN <<>>
    ELSE LET front == ArrayFromSet(SubSeq(arr, 1, Len(arr) - 1))
             last  == arr[Len(arr)]
         IN  IF includes(front, last) THEN front ELSE Append(front, last)

\* Every string over the characters cs of length at most n.
Texts(cs, n) == UNION {[1..k -> cs] : k \in 0..n}

\* ----------------------------------------------------------------- settings

Fields == {"lastUsedLanguage", "additionalLanguages"}

DEFAULT_SETTINGS == [lastUsedLanguage |-> <<>>, additionalLanguages |-> <<>>]

\* Object.assign({}, a, b): the fields of b over those of a.  A null or
\* undefined source adds nothing, as the empty record does.
ObjectAssign(a, b) ==
    [f \in (DOMAIN a) \cup (DOMAIN b) |-> IF f \in DOMAIN b THEN b[f] ELSE a[f]]

\* ----------------------------------------------------------- candidate list

baseLanguages ==
    <<
       <<"j", "a", "v", "a", "s", "c", "r", "i", "p", "t">>,
       <<"p", "y", "t", "h", "o", "n">>,
       <<"j", "a", "v", "a">>,
       <<"c">>,
       <<"c", "p", "p">>,
       <<"c", "s", "h", "a", "r", "p">>,
       <<"r", "u", "b", "y">>,
       <<"g", "o">>,
       <<"r", "u", "s", "t">>,
       <<"s", "w", "i", "f", "t">>,
       <<"k", "o", "t", "l", "i", "n">>,
       <<"p", "h", "p">>,
       <<"h", "t", "m", "l">>,
       <<"c", "s", "s">>,
       <<"s", "q", "l">>,
       <<"b", "a", "s", "h">>,
       <<"p", "o", "w", "e", "r", "s", "h", "e", "l", "l">>,
       <<"m", "a", "r", "k", "d", "o", "w", "n">>,
       <<"j", "s", "o", "n">>,
       <<"y", "a", "m", "l">>,
       <<"x", "m", "l">>,
       <<"t", "y", "p", "e", "s", "c", "r", "i", "p", "t">>,
       <<"o", "c", "a", "m", "l">>
    >>

\* .split(",").map(lang => lang.trim()).filter(lang => lang.length > 0)
parseAdditional(text) ==
    LET parts   == split(text, ",")
        trimmed == [i \in 1..Len(parts) |-> trim(parts[i])]
        NonEmpty(lang) == Len(lang) > 0
    IN  SelectSeq(trimmed, NonEmpty)

\* The value updateLanguages stores in this.languages.
updateLanguages(s) ==
    ArrayFromSet(parseAdditional(s.additionalLanguages) \o baseLanguages)

\* ------------------------------------------------------------------ trigger

NoTrigger == <<>>

\* line.match(/```(\w*)$/): the leftmost place where three backticks are
\* followed by word characters up to the end of the line; group 1 is that run.
MatchAt(line, i) ==
    /\ i + 2 <= Len(line)
    /\ \A j \in i..(i + 2) : line[j] = Backtick
    /\ \A j \in (i + 3)..Len(line) : IsWordChar(line[j])

match(line) ==
    LET at == {i \in 1..Len(line) : MatchAt(line, i)}
    IN  IF at = {} THEN <<>>
        ELSE LET i == CHOOSE k \in at : \A j \in at : k <= j
             IN  <<SubSeq(line, i, Len(line)), SubSeq(line, i + 3, Len(line))>>

onTrigger(cur, line) ==
    LET m == match(line)
    IN  IF m # <<>>
        THEN [start |-> [line |-> cur.line, ch |-> cur.ch - Len(m[2])],
              end   |-> cur,
              query |-> m[2]]
        ELSE NoTrigger

\* ------------------------------------------------------------------ ranking

\* getSuggestions putting the last used language first without taking it out
\* of the rest of the list.
getSuggestionsKeepsBoth(ctx, langs, s) ==
    LET query == toLowerCase(ctx.query)
        Matches(lang) == startsWith(lang, query)
        suggested == SelectSeq(langs, Matches)
        lastUsedLanguage == s.lastUsedLanguage
    IN  IF /\ lastUsedLanguage # <<>>
           /\ startsWith(lastUsedLanguage, query)
           /\ includes(suggested, lastUsedLanguage)
        THEN <<lastUsedLanguage>> \o suggested
        ELSE suggested

getSuggestions(ctx, langs, s) ==
    LET query == toLowerCase(ctx.query)
        Matches(lang) == startsWith(lang, query)
        suggested == SelectSeq(langs, Matches)
        lastUsedLanguage == s.lastUsedLanguage
        Others(lang) == lang # lastUsedLanguage
    IN  IF /\ lastUsedLanguage # <<>>
           /\ startsWith(lastUsedLanguage, query)
           /\ includes(suggested, lastUsedLanguage)
        THEN <<lastUsedLanguage>> \o SelectSeq(suggested, Others)
        ELSE suggested

\* -------------------------------------------------------------------- state

VARIABLES
    phase,        \* "unloaded" before onload has run, "running" after it
    settings,     \* plugin.settings; the empty record before loadSettings
    languages,    \* suggester.languages
    line,         \* the text of the editor line the cursor is on
    cursor,       \* the editor cursor, [line, ch]
    context,      \* suggester.context: the trigger of the open session, or NoTrigger
    suggestions,  \* the list the latest getSuggestions returned to the host
    calls,        \* the host calls the latest handler issued, in order
    saved,        \* <<record>> handed to the latest saveData call; <<>> before any
    pending,      \* "Additional Languages" handlers suspended at await saveSettings()
    op,           \* the latest handler and its argument
    commitFresh   \* lastUsedLanguage was set by a commit of an offered suggestion
                  \* and no commit, reset or settings edit came after it

vars ==
    <<phase, settings, languages, line, cursor, context, suggestions, calls,
      saved, pending, op, commitFresh>>

\* ------------------------------------------------------------------- inputs

\* Word characters the user types after the fence and into the settings.
TypedChars == {"c", "C"}

\* Characters of the editor lines of the trigger scan.
LineChars == {Backtick, "c", " "}

Fence == <<Backtick, Backtick, Backtick>>

Words == Texts(TypedChars, MaxTextLen)

\* Texts typed into the "Additional Languages" area: nothing; an upper-case
\* entry; a built-in language after a blank, then an entry; an empty segment,
\* an entry twice and a blank before a comma.
AddlTexts ==
    { <<>>,
      <<"C">>,
      <<" ", "c", ",", "C">>,
      <<"C", ",", ",", "C", " ", ",", "c", "c">> }

\* The lines of an editing session: nothing yet, or a fence and a typed word.
SessionLines == {<<>>} \cup {Fence \o w : w \in Words}

\* Every line of the trigger scan.
ScanLines == Texts(LineChars, MaxLineLen)

\* What loadData resolves to: no record or an empty one (the empty record),
\* or a record holding some of the fields.
LoadedRecords ==
    {r \in UNION {[fs -> Words \cup AddlTexts] : fs \in SUBSET Fields} :
        /\ "lastUsedLanguage" \in DOMAIN r => r.lastUsedLanguage \in Words
        /\ "additionalLanguages" \in DOMAIN r => r.additionalLanguages \in AddlTexts}

\* --------------------------------------------------------------- host calls

ReplaceRange(text, from, to) ==
    [call |-> "replaceRange", text |-> text, from |-> from, to |-> to]

SetCursor(pos) == [call |-> "setCursor", pos |-> pos]

\* saveSettings: saveData is called with the settings as they are now.
SaveData(s) == [call |-> "saveData", data |-> s]

\* ------------------------------------------------------------------ actions

Init ==
    /\ phase = "unloaded"
    /\ settings = <<>>
    /\ languages = <<>>
    /\ line = <<>>
    /\ cursor = [line |-> 0, ch |-> 0]
    /\ context = NoTrigger
    /\ suggestions = <<>>
    /\ calls = <<>>
    /\ saved = <<>>
    /\ pending = 0
    /\ op = [name |-> "init", arg |-> <<>>]
    /\ commitFresh = FALSE

\* loadSettings with the defaults assigned last, over what was loaded.
loadSettingsDefaultsLast(data) == ObjectAssign(data, DEFAULT_SETTINGS)

\* loadSettings
loadSettings(data) == ObjectAssign(DEFAULT_SETTINGS, data)

\* onload: loadSettings, then the constructor of LanguageSuggester.
OnLoad ==
    /\ phase = "unloaded"
    /\ \E data \in LoadedRecords :
         /\ settings' = loadSettings(data)
         /\ op' = [name |-> "onload", arg |-> data]
    /\ languages' = updateLanguages(settings')
    /\ phase' = "running"
    /\ UNCHANGED <<line, cursor, context, suggestions, calls, saved, pending,
                   commitFresh>>

\* The host reports an edit or a cursor move and asks onTrigger; a trigger
\* opens a session (the context), no trigger closes it.  The host shows the
\* list of a session until the next editor or settings event: a list is
\* dropped by every handler but the two save completions.
EditorChangeIn(lines, anywhere) ==
    /\ phase = "running"
    /\ \E text \in lines, ln \in {0, MaxLineNo} :
         \E ch \in (IF anywhere THEN 0..Len(text) ELSE {Len(text)}) :
           /\ line' = text
           /\ cursor' = [line |-> ln, ch |-> ch]
    /\ context' = onTrigger(cursor', line')
    /\ suggestions' = <<>>
    /\ calls' = <<>>
    /\ op' = [name |-> "onTrigger", arg |-> <<>>]
    /\ UNCHANGED <<phase, settings, languages, saved, pending, commitFresh>>

\* Typing at the end of the line.
EditorChange == EditorChangeIn(SessionLines, FALSE)

\* Any line with the cursor anywhere on it.
EditorScan == EditorChangeIn(ScanLines, TRUE)

\* The host asks for the suggestions of the open session.
GetSuggestions ==
    /\ phase = "running"
    /\ context # NoTrigger
    /\ suggestions' = getSuggestions(context, languages, settings)
    /\ calls' = <<>>
    /\ op' = [name |-> "getSuggestions", arg |-> context.query]
    /\ UNCHANGED <<phase, settings, languages, line, cursor, context, saved,
                   pending, commitFresh>>

\* selectSuggestion inserting the language in lower case.
selectSuggestionCallsLowered(lang, ctx, s) ==
    <<ReplaceRange(toLowerCase(lang), ctx.start, ctx.end),
      SaveData(s),
      SetCursor([line |-> ctx.end.line + 1, ch |-> 0])>>

\* The calls selectSuggestion issues, in order.
selectSuggestionCalls(lang, ctx, s) ==
    <<ReplaceRange(lang, ctx.start, ctx.end),
      SaveData(s),
      SetCursor([line |-> ctx.end.line + 1, ch |-> 0])>>

\* The user picks one of the suggestions shown.
SelectSuggestion ==
    /\ phase = "running"
    /\ context # NoTrigger
    /\ \E i \in 1..Len(suggestions) :
         LET lang == suggestions[i]
         IN  /\ settings' = [settings EXCEPT !.lastUsedLanguage = lang]
             /\ op' = [name |-> "selectSuggestion", arg |-> lang]
             /\ calls' = selectSuggestionCalls(lang, context, settings')
    /\ saved' = <<settings'>>
    /\ suggestions' = <<>>
    /\ commitFresh' = TRUE
    /\ UNCHANGED <<phase, languages, line, cursor, context, pending>>

\* onChange of the "Last Used Language" field.
EditLastUsed ==
    /\ phase = "running"
    /\ \E value \in Words :
         /\ settings' = [settings EXCEPT !.lastUsedLanguage = value]
         /\ op' = [name |-> "editLastUsed", arg |-> value]
    /\ calls' = <<SaveData(settings')>>
    /\ saved' = <<settings'>>
    /\ suggestions' = <<>>
    /\ commitFresh' = FALSE
    /\ UNCHANGED <<phase, languages, line, cursor, context, pending>>

\* onChange of the "Additional Languages" area, up to await saveSettings().
EditAdditional ==
    /\ phase = "running"
    /\ pending < MaxPending
    /\ \E value \in AddlTexts :
         /\ settings' = [settings EXCEPT !.additionalLanguages = value]
         /\ op' = [name |-> "editAdditional", arg |-> value]
    /\ calls' = <<SaveData(settings')>>
    /\ saved' = <<settings'>>
    /\ pending' = pending + 1
    /\ suggestions' = <<>>
    /\ commitFresh' = FALSE
    /\ UNCHANGED <<phase, languages, line, cursor, context>>

\* The save of an "Additional Languages" edit resolves: the handler resumes
\* and calls updateLanguages.
SaveResolved ==
    /\ pending > 0
    /\ pending' = pending - 1
    /\ languages' = updateLanguages(settings)
    /\ calls' = <<>>
    /\ op' = [name |-> "saveResolved", arg |-> <<>>]
    /\ UNCHANGED <<phase, settings, line, cursor, context, suggestions, saved,
                   commitFresh>>

\* The save of an "Additional Languages" edit rejects: await throws and the
\* rest of the handler never runs.
SaveRejected ==
    /\ pending > 0
    /\ pending' = pending - 1
    /\ calls' = <<>>
    /\ op' = [name |-> "saveRejected", arg |-> <<>>]
    /\ UNCHANGED <<phase, settings, languages, line, cursor, context,
                   suggestions, saved, commitFresh>>

\* Reset clearing the field without asking for a save.
ResetWithoutSave ==
    /\ phase = "running"
    /\ settings' = [settings EXCEPT !.lastUsedLanguage = <<>>]
    /\ calls' = <<>>
    /\ op' = [name |-> "reset", arg |-> <<>>]
    /\ suggestions' = <<>>
    /\ commitFresh' = FALSE
    /\ UNCHANGED <<phase, languages, line, cursor, context, saved, pending>>

\* onClick of "Reset", up to await saveSettings(); display() after it only
\* draws the tab again.
Reset ==
    /\ phase = "running"
    /\ settings' = [settings EXCEPT !.lastUsedLanguage = <<>>]
    /\ calls' = <<SaveData(settings')>>
    /\ saved' = <<settings'>>
    /\ op' = [name |-> "reset", arg |-> <<>>]
    /\ suggestions' = <<>>
    /\ commitFresh' = FALSE
    /\ UNCHANGED <<phase, languages, line, cursor, context, pending>>

Next ==
    \/ OnLoad
    \/ EditorChange
    \/ GetSuggestions
    \/ SelectSuggestion
    \/ EditLastUsed
    \/ EditAdditional
    \/ SaveResolved
    \/ SaveRejected
    \/ Reset

Spec == Init /\ [][Next]_vars

\* The trigger scan: the plugin loaded with no stored settings, and the host
\* asking onTrigger for every line and cursor.
InitScan ==
    /\ phase = "running"
    /\ settings = loadSettings(<<>>)
    /\ languages = updateLanguages(settings)
    /\ line = <<>>
    /\ cursor = [line |-> 0, ch |-> 0]
    /\ context = NoTrigger
    /\ suggestions = <<>>
    /\ calls = <<>>
    /\ saved = <<>>
    /\ pending = 0
    /\ op = [name |-> "onload", arg |-> <<>>]
    /\ commitFresh = FALSE

NextScan == EditorScan

SpecScan == InitScan /\ [][NextScan]_vars

\* ------------------------------------------------------------------- claims

Query == context.query

LastUsed == settings.lastUsedLanguage

\* The candidates that start with the lower-cased query, in candidate order.
Filtered ==
    LET Matches(lang) == startsWith(lang, toLowerCase(Query))
    IN  SelectSeq(languages, Matches)

NoDuplicates(arr) ==
    \A i, j \in 1..Len(arr) : arr[i] = arr[j] => i = j

\* The prioritization contract, the last used language being moved when it
\* is non-empty, starts with prefix and is among the filtered candidates.
Prioritization(prefix) ==
    LET Others(lang) == lang # LastUsed
    IN  IF /\ LastUsed # <<>>
           /\ startsWith(LastUsed, prefix)
           /\ includes(Filtered, LastUsed)
        THEN /\ suggestions # <<>>
             /\ suggestions[1] = LastUsed
             /\ Tail(suggestions) = SelectSeq(Filtered, Others)
             /\ Len(suggestions) = Len(Filtered)
             /\ NoDuplicates(suggestions)
        ELSE suggestions = Filtered

\* C1, as stated: after getSuggestions, if lastUsedLanguage is non-empty,
\* starts with the query q as typed and is among the prefix-filtered
\* candidates, it is first and the other entries keep their filtered order
\* with none added, lost or duplicated; otherwise the result is the filtered
\* candidates unchanged.
C1_PrioritizationAsTyped ==
    op.name = "getSuggestions" => Prioritization(Query)

\* C1, amended: the same with "starts with the lower-cased q" for "starts
\* with q".
C1_Prioritization ==
    op.name = "getSuggestions" => Prioritization(toLowerCase(Query))

\* C1 witness: a query in upper case, and the last used language moved from
\* a later place of the filtered candidates to the front.
C1_Witness ==
    /\ op.name = "getSuggestions"
    /\ Query # toLowerCase(Query)
    /\ Len(Filtered) > 2
    /\ Filtered[1] # LastUsed
    /\ suggestions[1] = LastUsed

\* C2: after getSuggestions, every string returned starts with the query
\* case-insensitively, and no candidate that starts with the query
\* case-insensitively is left out.
C2_FilterCaseInsensitive ==
    op.name = "getSuggestions" =>
        /\ \A i \in 1..Len(suggestions) :
             startsWith(toLowerCase(suggestions[i]), toLowerCase(Query))
        /\ \A i \in 1..Len(languages) :
             startsWith(toLowerCase(languages[i]), toLowerCase(Query))
                 => includes(suggestions, languages[i])

\* The ch characters before the cursor end with three backticks followed by
\* zero or more word characters.
FenceBeforeCursor(text, ch) ==
    \E k \in 0..(ch - 3) :
        /\ \A j \in (ch - k + 1)..ch : IsWordChar(text[j])
        /\ \A j \in (ch - k - 2)..(ch - k) : text[j] = Backtick

\* C3: onTrigger fires if and only if the characters of the line right
\* before the cursor are three backticks followed by zero or more word
\* characters ending at the cursor.
C3_TriggerIffFenceBeforeCursor ==
    op.name = "onTrigger" =>
        ((context # NoTrigger) <=> FenceBeforeCursor(line, cursor.ch))

\* C4: after a commit of an offered language L, and with no later commit,
\* reset or settings edit, a getSuggestions call whose query is a
\* case-insensitive prefix of L returns L at index 0.
C4_CommittedLanguageFirst ==
    (/\ op.name = "getSuggestions"
     /\ commitFresh
     /\ startsWith(toLowerCase(LastUsed), toLowerCase(Query)))
        => (suggestions # <<>> /\ suggestions[1] = LastUsed)

\* C5: a selectSuggestion step asks for the replacement of the trigger range
\* start..end by the chosen string as it is, and for nothing else to be
\* replaced, sets lastUsedLanguage to the chosen string, asks for a save of
\* the settings, and leaves additionalLanguages and the candidate list alone.
C5_SelectSuggestion ==
    [][op'.name = "selectSuggestion" =>
          /\ calls' # <<>>
          /\ calls'[1] = ReplaceRange(op'.arg, context.start, context.end)
          /\ \A i \in 2..Len(calls') : calls'[i].call # "replaceRange"
          /\ settings'.lastUsedLanguage = op'.arg
          /\ \E i \in 1..Len(calls') : calls'[i] = SaveData(settings')
          /\ settings'.additionalLanguages = settings.additionalLanguages
          /\ languages' = languages]_vars

\* C5 witness: a user-supplied language in upper case committed over a
\* trigger range on the last line.
C5_Witness ==
    /\ op.name = "selectSuggestion"
    /\ op.arg # toLowerCase(op.arg)
    /\ calls[1].text = op.arg
    /\ calls[1].to.line = MaxLineNo
    /\ LastUsed = op.arg

\* C6: a getSuggestions call filters the candidate list derived from the
\* current additionalLanguages value.
C6_CandidatesCurrent ==
    op.name = "getSuggestions" =>
        suggestions = getSuggestions(context, updateLanguages(settings), settings)

\* s without the entries that occur earlier in it.
RECURSIVE FirstOccurrences(_)
FirstOccurrences(s) ==
    IF s = <<>> THEN <<>>
    ELSE LET NotHead(x) == x # Head(s)
         IN  <<Head(s)>> \o FirstOccurrences(SelectSeq(Tail(s), NotHead))

\* The user-supplied entries in typed order, then the built-in languages
\* that are not among them in built-in order.
ExpectedCandidates(text) ==
    LET user == FirstOccurrences(parseAdditional(text))
        NotUser(lang) == ~includes(user, lang)
    IN  user \o SelectSeq(baseLanguages, NotUser)

\* C7: once the plugin runs and no "Additional Languages" handler is waiting
\* for its save, the candidate list holds no duplicate, no empty and no
\* untrimmed entry, and is the user-supplied entries of the current
\* additionalLanguages in typed order followed by the other built-in
\* languages.
C7_CandidateList ==
    (phase = "running" /\ pending = 0) =>
        /\ NoDuplicates(languages)
        /\ \A i \in 1..Len(languages) :
             languages[i] # <<>> /\ trim(languages[i]) = languages[i]
        /\ languages = ExpectedCandidates(settings.additionalLanguages)

MutatingHandlers ==
    {"editLastUsed", "editAdditional", "reset", "selectSuggestion"}

\* C8: a handler that changes a settings field has asked for a save of the
\* changed record in the same step, and the record of the latest save request
\* is the settings record in memory.
C8_SavedOnEachMutation ==
    /\ op.name \in MutatingHandlers =>
         /\ \E i \in 1..Len(calls) : calls[i] = SaveData(settings)
         /\ saved = <<settings>>
    /\ saved # <<>> => saved[1] = settings

\* C8 witness: Reset has saved the cleared record while the save of an
\* "Additional Languages" edit is still pending.
C8_Witness ==
    /\ op.name = "reset"
    /\ pending > 0
    /\ settings.additionalLanguages # <<>>
    /\ saved = <<settings>>

IsString(s) == s \in Seq(STRING)

\* C9: once the plugin runs, the settings record has both fields, each a
\* string; right after the load, a field the loaded record lacks is the empty
\* string and a field it holds has the loaded value; and every loaded record
\* loads.
C9_SettingsDefined ==
    /\ phase = "running" =>
         /\ DOMAIN settings = Fields
         /\ \A f \in Fields : IsString(settings[f])
    /\ op.name = "onload" =>
         \A f \in Fields :
             settings[f] = IF f \in DOMAIN op.arg THEN op.arg[f] ELSE <<>>
    /\ \A data \in LoadedRecords :
         /\ DOMAIN loadSettings(data) = Fields
         /\ \A f \in Fields : IsString(loadSettings(data)[f])

\* C9 witness: a record holding only additionalLanguages was loaded.
C9_Witness ==
    /\ op.name = "onload"
    /\ DOMAIN op.arg = {"additionalLanguages"}
    /\ settings.additionalLanguages # <<>>
    /\ settings.lastUsedLanguage = <<>>

\* C10: when onTrigger opens a session, the line text between start and end
\* is the query and the three characters before start are the backticks.
C10_RangeIsQueryAfterFence ==
    (op.name = "onTrigger" /\ context # NoTrigger) =>
        /\ context.start.ch >= 3
        /\ context.end.ch <= Len(line)
        /\ SubSeq(line, context.start.ch + 1, context.end.ch) = context.query
        /\ \A j \in (context.start.ch - 2)..context.start.ch : line[j] = Backtick

====
